---- MODULE Spec2Model ----
(***************************************************************************)
(* A model of the smartsensors library (zerynth/lib-zerynth-smartsensors): *)
(*   - SensorPool   (src/sensorPool.py): N sampling periods on one timer,  *)
(*   - Sensor       (src/sensors.py): the observation window aggregates,   *)
(*   - DigitalSensor (src/digitalSensors.py): the timed edge sequence.     *)
(*                                                                         *)
(* The three parts share no state in the code, so each has a specification *)
(* of its own (SpecPool, SpecWin, SpecSeq) that moves only its variables.  *)
(*                                                                         *)
(* Conventions.                                                            *)
(*   - Python lists are 0-based, the sequences here 1-based: sensor i of   *)
(*     the code is index i+1 here.                                         *)
(*   - The library runs on the Zerynth VM, whose type(x) returns a type    *)
(*     code: PSMALLINT = 0, PNONE, PTUPLE, ...  type(x) == 0 reads "x is a *)
(*     small integer", type(x) != PNONE reads "x is not None".             *)
(*   - An optional number is a sequence: None is <<>>, the number v <<v>>. *)
(*   - Time is discrete; one unit is 100 ms in the pool and in the edge    *)
(*     sequence.  A timer is the external Timer capability: one_shot arms  *)
(*     it, it expires when its delay has elapsed, and its callback runs.   *)
(*     A persistence of exactly the minimum counts as long enough (the     *)
(*     docstring of onRiseAndFall: "at least min_time"): a timer due at an *)
(*     instant has run its callback before an edge of that instant is      *)
(*     delivered.                                                          *)
(*   - Pin reads are non-negative integers (analogRead, digitalRead).      *)
(***************************************************************************)
EXTENDS Integers, Sequences, FiniteSets, TLC

VARIABLES
    \* ---- SensorPool (src/sensorPool.py:28-36)
    samplingTimes,   \* _samplingTimes
    diffTimes,       \* _diffTimes
    readIndexes,     \* _readIndexes
    stopFlag,        \* _stopSampling
    samplingTimer,   \* _samplingTimer: [st, due]
    orphans,         \* expirations outstanding on timer objects the pool no longer holds
    now,             \* time elapsed since the last startSampling
    starts,          \* number of startSampling calls made
    acquired,        \* history: <<i, t>> for sensor i acquired at elapsed time t
    stopped,         \* history: stopSampling returned and startSampling was not called since
    acqAfterStop,    \* history: sensors acquired by a tick that ran while stopped
    ticksAfterStop   \* history: ticks run since stopSampling returned

poolVars == <<samplingTimes, diffTimes, readIndexes, stopFlag, samplingTimer,
              orphans, now, starts, acquired, stopped, acqAfterStop, ticksAfterStop>>

    \* ---- Sensor (src/sensors.py:58-90), the observation window
VARIABLES
    observationWindowN,  \* _observationWindowN
    highPrecision,       \* highPrecision
    sampleBuffer,        \* _sampleBuffer
    currentBufferIndex,  \* _currentBufferIndex (0-based, -1 after a reset)
    currentAverage,      \* currentAverage
    minSample,           \* minSample
    maxSample,           \* maxSample
    pushes               \* history: samples pushed since the last reset, counted to MaxPushes

winVars == <<observationWindowN, highPrecision, sampleBuffer, currentBufferIndex,
             currentAverage, minSample, maxSample, pushes>>

    \* ---- DigitalSensor (src/digitalSensors.py:35-46), the edge sequence
VARIABLES
    configured,      \* onSequence was called
    sequenceTimes,   \* _sequenceTimes: <<min, max>> per step
    sequenceLength,  \* _sequenceLength
    sequenceStart,   \* _sequenceStart
    hasLong,         \* _sequenceLongFunction is set
    matcher,         \* [step, tmin, tmax, rise, fall] and the calls made
                     \*   step: _sequenceStep, tmin: _timerMin, tmax: _timerMax,
                     \*   rise, fall: the callbacks registered by onPinRise, onPinFall,
                     \*   calls, longs, errs (history): step actions and overflow
                     \*   actions invoked, exceptions raised, since the last edge
    pin,             \* the level of the pin
    dur,             \* history: time since the last edge, counted to MaxDur
    last             \* history: the persistence the last edge ended, None if none:
                     \*   <<[level, d, step, tmin, tmax, calls, longs, errs,
                     \*      began, armed]>>, with
                     \*   step, tmin, tmax as the edge found them: _sequenceStep and
                     \*   the kinds of _timerMin and _timerMax,
                     \*   armed: the step whose minimum-timer this edge started,
                     \*   -1 if none, began: the `armed` of the edge before

seqVars == <<configured, sequenceTimes, sequenceLength, sequenceStart, hasLong,
             matcher, pin, dur, last>>

    \* ---- Sensor (src/sensors.py:214-437), acquisition and sampling
VARIABLES
    samplingTime,        \* _samplingTime
    samplingGetType,     \* _samplingGetType: "raw", "norm", "none" for None
    observationWindowT,  \* _observationWindowT
    skipEval,            \* skipEval
    normFunc,            \* normFunc is set
    currentDerivative,   \* currentDerivative: [dv, dt] reads dv / (dt/1000)
    currentTrend,        \* currentTrend: [dv, dt] reads dv / (dt/1000)
    lastSample,          \* _currentSample
    sensorTimer,         \* _samplingTimer: [st, queued, late], late (history): a
                         \*   callback of the timer ran after stopSampling cleared it
    lostTimers,          \* interval timers still running that the sensor no longer holds
    loops,               \* the threads running _microSample: [pc, run, st] each,
                         \*   pc: "test" (line 383) or "get" (line 384),
                         \*   run, st (history): the startSampling call that made
                         \*   the thread, and "live", "stopped" once stopSampling
                         \*   was called, "revived" once the thread then found
                         \*   _samplingTime set again
    runs,                \* number of startSampling calls made
    runWindow,           \* history: the observation_window handed to the last
                         \*   startSampling call
    halted,              \* history: stopSampling returned, and since then no
                         \*   startSampling and no getRaw/getNormalized call was made
    lastGet              \* history: the last _getValue call, None if none:
                         \*   <<[by, kind, norm, ret, changed, acted, evald, run]>>, with
                         \*   by: the caller, kind: get_type, norm: normFunc was set,
                         \*   ret: "value", "False" or "raise" (an exception),
                         \*   changed: a field of the window or _currentSample changed,
                         \*   acted: the per-sample actions and the checks were run,
                         \*   evald: _evalParams was called and returned,
                         \*   run: the value of `runs` at the call

smpVars == <<samplingTime, samplingGetType, observationWindowT, skipEval, normFunc,
             currentDerivative, currentTrend, lastSample, sensorTimer, lostTimers,
             loops, runs, runWindow, halted, lastGet>>

    \* ---- a derived sensor: AnalogSensor((source, field)), src/sensors.py:229-233
VARIABLES
    derived,             \* the derived sensor: [field, n, buf, idx, avg, mn, mx]:
                         \*   field: pin[1] ("none": not built), n: _observationWindowN,
                         \*   buf: _sampleBuffer, idx: _currentBufferIndex,
                         \*   avg, mn, mx: currentAverage, minSample, maxSample
    lastDerivedGet       \* history: its last _getValue call, None if none:
                         \*   <<[src, srcAverage, full, ret, changed, acted]>>, with
                         \*   src: the value of the source's field at the call,
                         \*   srcAverage: the source's currentAverage at the call,
                         \*   full: the source had pushed a full window since its reset,
                         \*   ret: the value returned, changed: a field of the derived
                         \*   sensor changed, acted: its actions and checks were run

derVars == <<derived, lastDerivedGet>>

    \* ---- an acquisition that raises inside a pool tick
VARIABLES
    failed               \* history: a pool tick was ended by an exception

vars == <<poolVars, winVars, seqVars, smpVars, derVars, failed>>

None == <<>>
Some(v) == <<v>>

-----------------------------------------------------------------------------
(* Bounds *)
MaxTime == 21
MaxStarts == 2
MaxN == 3
MaxSample == 2
MaxSteps == 2
MaxDur == 6
MaxRuns == 2
MaxPushes == 5

-----------------------------------------------------------------------------
(* The objects after construction *)

\* SensorPool.__init__
PoolInit ==
    /\ samplingTimes = <<>>
    /\ diffTimes = <<>>
    /\ readIndexes = <<>>
    /\ stopFlag = FALSE
    /\ samplingTimer = [st |-> "none", due |-> 0]
    /\ orphans = <<>>
    /\ now = 0
    /\ starts = 0
    /\ acquired = {}
    /\ stopped = FALSE
    /\ acqAfterStop = {}
    /\ ticksAfterStop = 0
    /\ failed = FALSE

\* Sensor.__init__ followed by _resetSamplingParams, as AnalogSensor.__init__ and
\* DigitalSensor.__init__ run them: storeAverage and storeMinMax are on, no
\* window length is set, the aggregates read None.  highPrecision is False for
\* an AnalogSensor and True for a DigitalSensor.
SensorInit(precisions) ==
    /\ observationWindowN = None
    /\ highPrecision \in precisions
    /\ sampleBuffer = <<>>
    /\ currentBufferIndex = -1
    /\ currentAverage = None
    /\ minSample = None
    /\ maxSample = None
    /\ pushes = 0

\* Sensor.__init__ and _resetSamplingParams, the fields of acquisition and
\* sampling: no sampling time, no timer, no thread, no normalization function.
SamplingInit ==
    /\ samplingTime = None
    /\ samplingGetType = "none"
    /\ observationWindowT = None
    /\ skipEval = FALSE
    /\ normFunc = FALSE
    /\ currentDerivative = None
    /\ currentTrend = None
    /\ lastSample = None
    /\ sensorTimer = [st |-> "none", queued |-> FALSE, late |-> FALSE]
    /\ lostTimers = 0
    /\ loops = <<>>
    /\ runs = 0
    /\ runWindow = None
    /\ halted = FALSE
    /\ lastGet = None

\* AnalogSensor.__init__ for a pin that is a tuple (source, field): the sensor
\* is not yet built (field "none").
DerivedInit ==
    /\ derived = [field |-> "none", n |-> None, buf |-> <<>>, idx |-> -1,
                  avg |-> None, mn |-> None, mx |-> None]
    /\ lastDerivedGet = None

NoTimer == [k |-> "none", left |-> 0, cb |-> "none"]

\* DigitalSensor.__init__: no sequence is set.
DigitalInit ==
    /\ configured = FALSE
    /\ sequenceTimes = <<>>
    /\ sequenceLength = 0
    /\ sequenceStart = 0
    /\ hasLong = FALSE
    /\ matcher = [step |-> 0, tmin |-> NoTimer, tmax |-> NoTimer,
                  rise |-> "none", fall |-> "none",
                  calls |-> 0, longs |-> 0, errs |-> 0]
    /\ pin = 0
    /\ dur = 0
    /\ last = None

-----------------------------------------------------------------------------
(* SensorPool *)

otherThanPool == <<winVars, seqVars, smpVars, derVars, failed>>

\* The pool of the examples holds two sensors: SensorPool([a,d]).
Sensors == 1..2

\* sampling_times handed to startSampling: positive periods, in units of 100 ms.
\* <<10, 7>> is the spec's [1000, 700].
PeriodSet == {2, 3, 7, 10}
PeriodVectors == [Sensors -> PeriodSet]

RangeOf(s) == {s[i] : i \in DOMAIN s}

\* min(*self._diffTimes)
MinOf(s) == CHOOSE m \in RangeOf(s) : \A x \in RangeOf(s) : m <= x

\* The second loop of _sample: the sensors whose remaining time is the minimum.
DueIndexes(diff, m) ==
    SelectSeq([i \in 1..Len(diff) |-> i], LAMBDA i : diff[i] = m)

NextDiffNoReload(diff, times, m) ==
    [i \in 1..Len(diff) |-> diff[i] - m]

\* The second loop of _sample: reload the due sensors, decrement the others.
NextDiff(diff, times, m) ==
    [i \in 1..Len(diff) |-> IF diff[i] = m THEN times[i] ELSE diff[i] - m]

IdleTimer == [st |-> "idle", due |-> 0]
ArmedTimer(t) == [st |-> "armed", due |-> t]

\* Timer objects with an expiration outstanding: armed, or expired with the
\* callback queued and not yet run.
Pending(t) == t.st \in {"armed", "queued"}

AllTimers == <<samplingTimer>> \o orphans

ArmedDues == {AllTimers[k].due : k \in {j \in DOMAIN AllTimers : AllTimers[j].st = "armed"}}

AnyQueued == \E k \in DOMAIN AllTimers : AllTimers[k].st = "queued"

\* The timer is ideal: a timer expires exactly when its delay has elapsed, the
\* earliest first, and no time passes while a callback is waiting to run.
CanExpire(t) ==
    /\ t.st = "armed"
    /\ t.due <= MaxTime
    /\ \A d \in ArmedDues : t.due <= d
    /\ (AnyQueued => t.due = now)

RemoveAt(s, k) == [j \in 1..(Len(s) - 1) |-> IF j < k THEN s[j] ELSE s[j + 1]]

\* self._samplingTimer.one_shot(m, self._sample) on timer object t at time `at`:
\* the object is armed for at+m; a callback of it that is already queued stays
\* queued (it joins the expirations the pool no longer holds).
OneShot(t, m, at, others) ==
    [timer |-> ArmedTimer(at + m),
     rest  |-> IF t.st = "queued" THEN Append(others, [st |-> "queued", due |-> t.due])
               ELSE others]

\* SensorPool._sample, run at elapsed time `at` with the pool's timer object in
\* state t and the other outstanding expirations `others`.
SampleBody(at, t, others, whileStopped) ==
    LET m == MinOf(diffTimes)
        armed == OneShot(t, m, at, others)
    IN  /\ acquired' = acquired \cup {<<readIndexes[k], at>> : k \in DOMAIN readIndexes}
        /\ acqAfterStop' = IF whileStopped
                           THEN acqAfterStop \cup RangeOf(readIndexes)
                           ELSE acqAfterStop
        /\ readIndexes' = DueIndexes(diffTimes, m)
        /\ diffTimes' = NextDiff(diffTimes, samplingTimes, m)
        /\ IF ~stopFlag
           THEN /\ samplingTimer' = armed.timer
                /\ orphans' = armed.rest
                /\ stopFlag' = stopFlag
           ELSE /\ samplingTimer' = t
                /\ orphans' = others
                /\ stopFlag' = FALSE

\* SensorPool.startSampling(sampling_times, observation_windows, get_types).
\* The timer object held so far is dropped, not cleared: if it is armed or its
\* callback is queued, that expiration stays outstanding.
StartSampling(p) ==
    /\ UNCHANGED otherThanPool
    /\ starts < MaxStarts
    /\ starts' = starts + 1
    /\ now' = 0
    /\ stopped' = FALSE
    /\ ticksAfterStop' = 0
    /\ LET old == IF Pending(samplingTimer) THEN Append(orphans, samplingTimer) ELSE orphans
           rebased == [k \in DOMAIN old |-> [st |-> old[k].st, due |-> old[k].due - now]]
           m == MinOf(p)
       IN  /\ samplingTimes' = p
           /\ acquired' = {<<readIndexes[k], 0>> : k \in DOMAIN readIndexes}
           /\ acqAfterStop' = {}
           /\ readIndexes' = DueIndexes(p, m)
           /\ diffTimes' = NextDiff(p, p, m)
           /\ stopFlag' = FALSE
           /\ samplingTimer' = ArmedTimer(m)
           /\ orphans' = rebased

\* SensorPool.stopSampling: clear() disarms an armed timer; a callback that is
\* already queued can no longer be withdrawn and runs once more.
StopSampling ==
    /\ UNCHANGED otherThanPool
    /\ samplingTimer.st # "none"
    /\ samplingTimer' = IdleTimer
    /\ orphans' = IF samplingTimer.st = "queued"
                  THEN Append(orphans, samplingTimer) ELSE orphans
    /\ stopFlag' = TRUE
    /\ stopped' = TRUE
    /\ ticksAfterStop' = 0
    /\ UNCHANGED <<samplingTimes, diffTimes, readIndexes, now, starts, acquired, acqAfterStop>>

\* The pool's timer expires: its callback is queued.
Expire ==
    /\ UNCHANGED otherThanPool
    /\ CanExpire(samplingTimer)
    /\ now' = samplingTimer.due
    /\ samplingTimer' = [samplingTimer EXCEPT !.st = "queued"]
    /\ UNCHANGED <<samplingTimes, diffTimes, readIndexes, stopFlag, orphans, starts,
                   acquired, stopped, acqAfterStop, ticksAfterStop>>

\* A timer object dropped by a later startSampling expires.
ExpireOrphan(k) ==
    /\ UNCHANGED otherThanPool
    /\ CanExpire(orphans[k])
    /\ now' = orphans[k].due
    /\ orphans' = [orphans EXCEPT ![k].st = "queued"]
    /\ UNCHANGED <<samplingTimes, diffTimes, readIndexes, stopFlag, samplingTimer, starts,
                   acquired, stopped, acqAfterStop, ticksAfterStop>>

\* The queued callback of the pool's timer runs _sample.
Tick ==
    /\ UNCHANGED otherThanPool
    /\ samplingTimer.st = "queued"
    /\ SampleBody(now, IdleTimer, orphans, stopped)
    /\ ticksAfterStop' = IF stopped THEN ticksAfterStop + 1 ELSE ticksAfterStop
    /\ UNCHANGED <<samplingTimes, now, starts, stopped>>

\* A queued callback of a timer object the pool no longer holds runs _sample.
TickOrphan(k) ==
    /\ UNCHANGED otherThanPool
    /\ orphans[k].st = "queued"
    /\ SampleBody(now, samplingTimer, RemoveAt(orphans, k), stopped)
    /\ ticksAfterStop' = IF stopped THEN ticksAfterStop + 1 ELSE ticksAfterStop
    /\ UNCHANGED <<samplingTimes, now, starts, stopped>>

PoolNext ==
    \/ \E p \in PeriodVectors : StartSampling(p)
    \/ StopSampling
    \/ Expire
    \/ \E k \in DOMAIN orphans : ExpireOrphan(k)
    \/ Tick
    \/ \E k \in DOMAIN orphans : TickOrphan(k)

InitPool == PoolInit /\ SensorInit({FALSE}) /\ SamplingInit /\ DerivedInit /\ DigitalInit

SpecPool == InitPool /\ [][PoolNext]_vars

\* The queued callback of the pool's timer runs _sample and the acquisition of
\* the j-th due sensor raises (its read, its normalization function, one of its
\* per-sample actions or checks): _sample ends there, at lines 39-43, and the
\* exception leaves the callback.
TickRaises(j) ==
    /\ samplingTimer.st = "queued"
    /\ j \in DOMAIN readIndexes
    /\ acquired' = acquired \cup {<<readIndexes[k], now>> : k \in 1..(j - 1)}
    /\ acqAfterStop' = IF stopped
                       THEN acqAfterStop \cup {readIndexes[k] : k \in 1..(j - 1)}
                       ELSE acqAfterStop
    /\ samplingTimer' = IdleTimer
    /\ ticksAfterStop' = IF stopped THEN ticksAfterStop + 1 ELSE ticksAfterStop
    /\ failed' = TRUE
    /\ UNCHANGED <<samplingTimes, diffTimes, readIndexes, stopFlag, orphans, now, starts,
                   stopped>>
    /\ UNCHANGED <<winVars, seqVars, smpVars, derVars>>

\* The pool with sensors whose acquisition can raise.
PoolFailNext ==
    \/ PoolNext
    \/ \E j \in Sensors : TickRaises(j)

SpecPoolFail == InitPool /\ [][PoolFailNext]_vars

-----------------------------------------------------------------------------
(* Sensor: the observation window (Sensor._evalParams) *)

otherThanWin == <<poolVars, seqVars, smpVars, derVars, failed>>

\* Values a read (or a normalization) yields.
SampleVals == 0..MaxSample

\* Window lengths handed to setObservationWindow.
WinLengths == 1..MaxN

\* sum(self._sampleBuffer), the buffer holding numbers only
SumSeq(s) ==
    LET partial[i \in 0..Len(s)] == IF i = 0 THEN 0 ELSE partial[i - 1] + s[i][1]
    IN  partial[Len(s)]

\* The numbers of a buffer, its None entries left out.
ValidOf(buf) == {buf[i][1] : i \in {j \in DOMAIN buf : buf[j] # None}}

\* min(*self._sampleBuffer) and max(*self._sampleBuffer): Zerynth's min and max
\* take the items as arguments; the buffer is full when they are called.
MinBuf(buf) == CHOOSE m \in ValidOf(buf) : \A x \in ValidOf(buf) : m <= x
MaxBuf(buf) == CHOOSE m \in ValidOf(buf) : \A x \in ValidOf(buf) : m >= x

\* `if self.currentAverage:` None, 0 and 0.0 are false.
Truthy(a) == a # None /\ a[1] # 0

\* currentAverage is kept as an integer.  With highPrecision off it is the
\* value itself (// is floor division, as \div is for a positive divisor).
\* With highPrecision on the value is a real with denominator N, and the
\* integer kept is the value times N (floating point rounding is not modelled):
\* sum/N is kept as sum, and ((avg*N)+val-rm)/N as (avg*N)+val-rm.
AvgFullWrongDivisor(buf, n, hp) ==
    IF hp THEN SumSeq(buf) ELSE SumSeq(buf) \div (n + 1)

\* lines 170-173: the full summation
AvgFull(buf, n, hp) ==
    IF hp THEN SumSeq(buf) ELSE SumSeq(buf) \div n

\* lines 164-167: the incremental update
AvgIncr(avg, n, val, rm, hp) ==
    IF hp THEN avg + val - rm ELSE ((avg * n) + val - rm) \div n

\* lines 162-173
EvalAverage(avg, buf, idx, n, val, rm, hp) ==
    IF Truthy(avg)
    THEN Some(AvgIncr(avg[1], n, val, rm[1], hp))
    ELSE IF idx = n - 1 THEN Some(AvgFull(buf, n, hp)) ELSE avg

EvalMinNoRescan(mn, buf, val, rm) ==
    IF mn = None THEN Some(MinBuf(buf))
    ELSE IF rm = mn
         THEN Some(val)
         ELSE IF val < mn[1] THEN Some(val) ELSE mn

\* lines 191-203, the buffer being full
EvalMin(mn, buf, val, rm) ==
    IF mn = None THEN Some(MinBuf(buf))
    ELSE IF rm = mn
         THEN IF val > mn[1] THEN Some(MinBuf(buf)) ELSE Some(val)
         ELSE IF val < mn[1] THEN Some(val) ELSE mn

\* lines 191-212, the buffer being full
EvalMax(mx, buf, val, rm) ==
    IF mx = None THEN Some(MaxBuf(buf))
    ELSE IF rm = mx
         THEN IF val < mx[1] THEN Some(MaxBuf(buf)) ELSE Some(val)
         ELSE IF val > mx[1] THEN Some(val) ELSE mx

\* Sensor.setObservationWindow(n), called before the first sample of a run.
SetObservationWindow(n) ==
    /\ currentBufferIndex = -1
    /\ observationWindowN' = Some(n)
    /\ UNCHANGED <<highPrecision, sampleBuffer, currentBufferIndex, currentAverage,
                   minSample, maxSample, pushes>>
    /\ UNCHANGED otherThanWin

\* Sensor._evalParams(val), a window length n >= 1 being set: the buffer, the
\* average, the minimum and the maximum.
EvalWindow(val) ==
    LET n == observationWindowN[1]
        buf0 == IF currentBufferIndex = -1 THEN [i \in 1..n |-> None] ELSE sampleBuffer
        idx == (currentBufferIndex + 1) % n
        rm == buf0[idx + 1]
        buf == [buf0 EXCEPT ![idx + 1] = Some(val)]
        oldestSample == buf[((idx + 1) % n) + 1]
    IN  /\ sampleBuffer' = buf
        /\ currentBufferIndex' = idx
        /\ currentAverage' = EvalAverage(currentAverage, buf, idx, n, val, rm, highPrecision)
        /\ minSample' = IF oldestSample # None THEN EvalMin(minSample, buf, val, rm)
                        ELSE minSample
        /\ maxSample' = IF oldestSample # None THEN EvalMax(maxSample, buf, val, rm)
                        ELSE maxSample
        /\ pushes' = IF pushes < MaxPushes THEN pushes + 1 ELSE pushes

\* Sensor.getRaw() reading val, with a window length set and skipEval off:
\* _getValue calls _evalParams(val).  _samplingTime is None (the sensor is read
\* by getRaw calls), so the derivative and the trend are not evaluated.
Push(val) ==
    /\ observationWindowN # None
    /\ pushes < MaxPushes
    /\ EvalWindow(val)
    /\ UNCHANGED <<observationWindowN, highPrecision>>
    /\ UNCHANGED otherThanWin

\* Sensor.stopSampling() -> _resetSamplingParams()
ResetSamplingParams ==
    /\ currentBufferIndex # -1
    /\ currentBufferIndex' = -1
    /\ currentAverage' = None
    /\ minSample' = None
    /\ maxSample' = None
    /\ pushes' = 0
    /\ UNCHANGED <<observationWindowN, highPrecision, sampleBuffer>>
    /\ UNCHANGED otherThanWin

WinNext ==
    \/ \E n \in WinLengths : SetObservationWindow(n)
    \/ \E v \in SampleVals : Push(v)
    \/ ResetSamplingParams

InitWin == SensorInit(BOOLEAN) /\ SamplingInit /\ DerivedInit /\ PoolInit /\ DigitalInit

SpecWin == InitWin /\ [][WinNext]_vars

-----------------------------------------------------------------------------
(* Sensor: acquisition and sampling (_getValue, startSampling, stopSampling) *)
(*                                                                         *)
(* The sensor is an AnalogSensor on a pin: storeAverage, storeMinMax and   *)
(* storeTrend are on, highPrecision is off.  A timer callback runs whole;  *)
(* the thread of _microSample runs beside the caller of startSampling and  *)
(* stopSampling, which can run between the loop's test of _samplingTime    *)
(* and its call of _getValue.  startSampling is given a window length      *)
(* other than the current one only when the window is reset.               *)

otherThanSmp == <<poolVars, seqVars, derVars, failed>>

\* Values a pin read, or the normalization function, yields.
ReadVals == {0, 1}

\* observation_window handed to startSampling: None, or a length.
RunWindows == {None, Some(-1), Some(0), Some(1), Some(2)}

\* time handed to startSampling.
RunTimes == {1}

\* Python's a % b, whose result has the sign of b.
PyMod(a, b) == IF b > 0 THEN a % b ELSE -((-a) % (-b))

\* lines 156-159 of _evalParams: the index after the step, and whether
\* currentSample() then indexes past the buffer (IndexError).
NextIndex == PyMod(currentBufferIndex + 1, observationWindowN[1])
BufferAtPush ==
    IF currentBufferIndex # -1 THEN sampleBuffer
    ELSE IF observationWindowN[1] < 1 THEN <<>>
    ELSE [i \in 1..observationWindowN[1] |-> None]
PushRaises == NextIndex + 1 > Len(BufferAtPush)

\* lines 177-182 of _evalParams: previousSample() is read after val is stored.
EvalDerivative(val) ==
    LET n == observationWindowN[1]
        buf == [BufferAtPush EXCEPT ![NextIndex + 1] = Some(val)]
        prev == buf[((NextIndex - 1) % n) + 1]
    IN  IF Truthy(samplingTime) /\ prev # None
        THEN Some([dv |-> val - prev[1], dt |-> samplingTime[1]])
        ELSE currentDerivative

\* lines 174-176 and 183-188 of _evalParams, storeTrend being on
EvalTrend(val) ==
    LET n == observationWindowN[1]
        buf == [BufferAtPush EXCEPT ![NextIndex + 1] = Some(val)]
        oldestSample == buf[((NextIndex + 1) % n) + 1]
    IN  IF Truthy(samplingTime) /\ oldestSample # None
        THEN Some([dv |-> val - oldestSample[1], dt |-> observationWindowT[1]])
        ELSE currentTrend

windowFields == <<sampleBuffer, currentBufferIndex, currentAverage, minSample,
                  maxSample, currentDerivative, currentTrend, lastSample>>


NoNormNever(get_type) == FALSE

\* lines 235-236 of _getValue: a normalized value is asked and normFunc is not set
NoNorm(get_type) == get_type = "norm" /\ ~normFunc

\* _getValue(get_type) raises: _evalParams is called and indexes past the buffer
GetRaises(get_type) ==
    ~NoNorm(get_type) /\ ~skipEval /\ Truthy(observationWindowN) /\ PushRaises

\* Sensor._getValue(get_type) on a pin, called by `by`.  val is what the pin
\* reads and nv what normFunc returns for it.
GetValue(by, get_type) ==
    \E val \in ReadVals, nv \in ReadVals :
        LET noNorm == NoNorm(get_type)
            v == IF get_type = "norm" THEN nv ELSE val
            evals == ~noNorm /\ ~skipEval /\ Truthy(observationWindowN)
            raises == GetRaises(get_type)
        IN  /\ get_type = "raw" => nv = val
            /\ IF evals /\ ~raises
               THEN /\ EvalWindow(v)
                    /\ currentDerivative' = EvalDerivative(v)
                    /\ currentTrend' = EvalTrend(v)
               ELSE IF raises
                    THEN /\ sampleBuffer' = BufferAtPush
                         /\ currentBufferIndex' = NextIndex
                         /\ UNCHANGED <<currentAverage, minSample, maxSample, pushes,
                                        currentDerivative, currentTrend>>
                    ELSE UNCHANGED <<sampleBuffer, currentBufferIndex, currentAverage,
                                     minSample, maxSample, pushes, currentDerivative,
                                     currentTrend>>
            /\ lastSample' = IF ~noNorm /\ skipEval THEN Some(v) ELSE lastSample
            /\ lastGet' = Some([by |-> by, kind |-> get_type, norm |-> normFunc,
                                ret |-> IF noNorm THEN "False"
                                        ELSE IF raises THEN "raise"
                                        ELSE "value",
                                changed |-> windowFields' # windowFields,
                                acted |-> ~noNorm /\ ~raises,
                                evald |-> evals /\ ~raises,
                                run |-> runs])
            /\ UNCHANGED <<observationWindowN, highPrecision, samplingTime, samplingGetType,
                           observationWindowT, skipEval, normFunc, lostTimers, runs, runWindow>>
            /\ UNCHANGED otherThanSmp

SensorSampleUntested == GetValue("timer", samplingGetType)

\* Sensor._sample, the callback of the interval timer
SensorSample ==
    IF Truthy(samplingTime)
    THEN GetValue("timer", samplingGetType)
    ELSE /\ UNCHANGED <<winVars, samplingTime, samplingGetType, observationWindowT,
                        skipEval, normFunc, currentDerivative, currentTrend, lastSample,
                        lostTimers, runs, runWindow, lastGet>>
         /\ UNCHANGED otherThanSmp

\* getRaw() or getNormalized(), called by the program (or by a pool tick)
Get(get_type) ==
    /\ GetValue("call", get_type)
    /\ halted' = FALSE
    /\ UNCHANGED <<sensorTimer, loops>>

\* Sensor.setNormFunc(fn), called when the sensor is set up
SetNormFunc ==
    /\ ~normFunc
    /\ runs = 0 /\ lastGet = None
    /\ normFunc' = TRUE
    /\ UNCHANGED <<winVars, samplingTime, samplingGetType, observationWindowT, skipEval,
                   currentDerivative, currentTrend, lastSample, sensorTimer, lostTimers,
                   loops, runs, runWindow, halted, lastGet>>
    /\ UNCHANGED otherThanSmp

\* Sensor.startSampling(time, observation_window, get_type, time_unit).  A timer
\* the sensor held and had not cleared goes on running.
SensorStartSampling(time, window, get_type, unit) ==
    /\ runs < MaxRuns
    /\ (window # None /\ window # observationWindowN) => currentBufferIndex = -1
    /\ runs' = runs + 1
    /\ runWindow' = window
    /\ samplingTime' = Some(time)
    /\ samplingGetType' = get_type
    /\ IF window # None
       THEN /\ observationWindowN' = window
            /\ observationWindowT' = Some(window[1] * time)
            /\ UNCHANGED skipEval
       ELSE /\ skipEval' = TRUE
            /\ UNCHANGED <<observationWindowN, observationWindowT>>
    /\ IF unit = "MILLIS"
       THEN /\ sensorTimer' = [sensorTimer EXCEPT !.st = "running", !.late = FALSE]
            /\ lostTimers' = IF sensorTimer.st = "running" THEN lostTimers + 1 ELSE lostTimers
            /\ UNCHANGED loops
       ELSE /\ loops' = Append(loops, [pc |-> "test", run |-> runs + 1, st |-> "live"])
            /\ UNCHANGED <<sensorTimer, lostTimers>>
    /\ halted' = FALSE
    /\ UNCHANGED <<highPrecision, sampleBuffer, currentBufferIndex, currentAverage,
                   minSample, maxSample, pushes, normFunc, currentDerivative,
                   currentTrend, lastSample, lastGet>>
    /\ UNCHANGED otherThanSmp

\* Sensor.stopSampling(): clear() stops the timer but cannot withdraw a callback
\* that is already queued; then _resetSamplingParams.
SensorStopSampling ==
    /\ runs > 0
    /\ ~halted
    /\ sensorTimer' = IF sensorTimer.st = "none" THEN sensorTimer
                      ELSE [sensorTimer EXCEPT !.st = "cleared"]
    /\ currentBufferIndex' = -1
    /\ currentAverage' = None
    /\ currentTrend' = None
    /\ currentDerivative' = None
    /\ minSample' = None
    /\ maxSample' = None
    /\ samplingTime' = None
    /\ pushes' = 0
    /\ halted' = TRUE
    /\ loops' = [k \in DOMAIN loops |-> [loops[k] EXCEPT !.st = "stopped"]]
    /\ UNCHANGED <<observationWindowN, highPrecision, sampleBuffer, samplingGetType,
                   observationWindowT, skipEval, normFunc, lastSample, lostTimers,
                   runs, runWindow, lastGet>>
    /\ UNCHANGED otherThanSmp

\* The period of the interval timer has elapsed: its callback is queued.
SensorTimerExpires ==
    /\ sensorTimer.st = "running"
    /\ ~sensorTimer.queued
    /\ sensorTimer' = [sensorTimer EXCEPT !.queued = TRUE]
    /\ UNCHANGED <<winVars, samplingTime, samplingGetType, observationWindowT, skipEval,
                   normFunc, currentDerivative, currentTrend, lastSample, lostTimers,
                   loops, runs, runWindow, halted, lastGet>>
    /\ UNCHANGED otherThanSmp

\* The queued callback of the interval timer runs.
SensorTimerCallback ==
    /\ sensorTimer.queued
    /\ sensorTimer' = [sensorTimer EXCEPT !.queued = FALSE, !.late = (@ \/ halted)]
    /\ SensorSample
    /\ UNCHANGED <<loops, halted>>

\* A timer the sensor no longer holds expires and its callback runs.
LostTimerCallback ==
    /\ lostTimers > 0
    /\ SensorSample
    /\ UNCHANGED <<sensorTimer, loops, halted>>

RemoveLoop(k) == [i \in 1..(Len(loops) - 1) |-> IF i < k THEN loops[i] ELSE loops[i + 1]]

MicroTestIgnoresStop(k) ==
    /\ loops[k].pc = "test"
    /\ loops' = [loops EXCEPT ![k].pc = "get"]
    /\ UNCHANGED <<winVars, samplingTime, samplingGetType, observationWindowT, skipEval,
                   normFunc, currentDerivative, currentTrend, lastSample, sensorTimer,
                   lostTimers, runs, runWindow, halted, lastGet>>
    /\ UNCHANGED otherThanSmp

\* _microSample, line 383: a loop wakes and tests _samplingTime; it ends when
\* _samplingTime is None.
MicroTest(k) ==
    /\ loops[k].pc = "test"
    /\ loops' = IF Truthy(samplingTime)
                THEN [loops EXCEPT ![k].pc = "get",
                                   ![k].st = IF @ = "stopped" THEN "revived" ELSE @]
                ELSE RemoveLoop(k)
    /\ UNCHANGED <<winVars, samplingTime, samplingGetType, observationWindowT, skipEval,
                   normFunc, currentDerivative, currentTrend, lastSample, sensorTimer,
                   lostTimers, runs, runWindow, halted, lastGet>>
    /\ UNCHANGED otherThanSmp

\* _microSample, lines 384-385: the loop acquires and sleeps; an exception ends
\* the thread.  sleep_micros(None), after a stopSampling that ran during the
\* acquisition, returns or raises.
MicroGet(k) ==
    /\ loops[k].pc = "get"
    /\ GetValue("loop", samplingGetType)
    /\ IF GetRaises(samplingGetType) THEN loops' = RemoveLoop(k)
       ELSE \/ loops' = [loops EXCEPT ![k].pc = "test"]
            \/ samplingTime = None /\ loops' = RemoveLoop(k)
    /\ UNCHANGED <<sensorTimer, halted>>

SmpNext ==
    \/ \E t \in RunTimes, w \in RunWindows, g \in {"raw", "norm"}, u \in {"MILLIS", "MICROS"} :
          SensorStartSampling(t, w, g, u)
    \/ SensorStopSampling
    \/ \E g \in {"raw", "norm"} : Get(g)
    \/ SetNormFunc
    \/ SensorTimerExpires
    \/ SensorTimerCallback
    \/ LostTimerCallback
    \/ \E k \in DOMAIN loops : MicroTest(k)
    \/ \E k \in DOMAIN loops : MicroGet(k)

\* The sensor sampled by the millisecond timer only.
MillisNext ==
    \/ \E t \in RunTimes, w \in RunWindows, g \in {"raw", "norm"} :
          SensorStartSampling(t, w, g, "MILLIS")
    \/ SensorStopSampling
    \/ \E g \in {"raw", "norm"} : Get(g)
    \/ SetNormFunc
    \/ SensorTimerExpires
    \/ SensorTimerCallback
    \/ LostTimerCallback

InitSmp == SensorInit({FALSE}) /\ SamplingInit /\ DerivedInit /\ PoolInit /\ DigitalInit

SpecSmp == InitSmp /\ [][SmpNext]_vars

SpecMillis == InitSmp /\ [][MillisNext]_vars

\* One step of the k-th thread of _microSample.
MicroStep(k) == k \in DOMAIN loops /\ (MicroTest(k) \/ MicroGet(k))

\* observation_window handed to startSampling in microsecond mode: None, a
\* length that makes the first push raise, or a window of one sample.
MicroWindows == {None, Some(-1), Some(1)}

\* The sensor sampled by the microsecond loop only.
MicroNext ==
    \/ \E t \in RunTimes, w \in MicroWindows, g \in {"raw", "norm"} :
          SensorStartSampling(t, w, g, "MICROS")
    \/ SensorStopSampling
    \/ \E k \in DOMAIN loops : MicroTest(k)
    \/ \E k \in DOMAIN loops : MicroGet(k)

\* Every thread of _microSample is scheduled again and again.
SpecMicro ==
    InitSmp /\ [][MicroNext]_vars /\ \A k \in 1..MaxRuns : WF_vars(MicroStep(k))

-----------------------------------------------------------------------------
(* A derived sensor: a_avg = AnalogSensor((a, "currentAverage")), read by    *)
(* getRaw.  The source a is the sensor of the observation window above, an  *)
(* AnalogSensor read by getRaw calls.                                       *)

otherThanDer == <<poolVars, seqVars, smpVars, failed>>

\* The fields _getValue can read from a source (lines 230-233).
SourceFields == {"currentAverage", "currentDerivative"}

\* Window lengths of the derived sensor: none, or 2.
DerivedWindows == {None, Some(2)}

SourceFieldSwapped(field) ==
    IF field = "currentAverage" THEN currentDerivative ELSE currentAverage

\* getattr(self.pin[0], self.pin[1])
SourceField(field) ==
    IF field = "currentAverage" THEN currentAverage ELSE currentDerivative

HasValueAlways(val) == TRUE

\* line 234: type(val) != PNONE
HasValue(val) == val # None

\* _evalParams(val) on the derived sensor, whose highPrecision is off
DerivedEval(d, val) ==
    LET n == d.n[1]
        buf0 == IF d.idx = -1 THEN [i \in 1..n |-> None] ELSE d.buf
        idx == (d.idx + 1) % n
        rm == buf0[idx + 1]
        buf == [buf0 EXCEPT ![idx + 1] = val]
        oldestSample == buf[((idx + 1) % n) + 1]
    IN  [d EXCEPT !.buf = buf,
                  !.idx = idx,
                  !.avg = EvalAverage(d.avg, buf, idx, n, val[1], rm, FALSE),
                  !.mn = IF oldestSample # None THEN EvalMin(d.mn, buf, val[1], rm) ELSE d.mn,
                  !.mx = IF oldestSample # None THEN EvalMax(d.mx, buf, val[1], rm) ELSE d.mx]

\* AnalogSensor((a, field)), then setObservationWindow(n) if a length is given
BuildDerived(field, n) ==
    /\ derived.field = "none"
    /\ derived' = [derived EXCEPT !.field = field, !.n = n]
    /\ UNCHANGED <<winVars, lastDerivedGet>>
    /\ UNCHANGED otherThanDer

\* getRaw() on the derived sensor: _getValue("raw") with a tuple pin
DerivedGetRaw ==
    /\ derived.field # "none"
    /\ LET val == SourceField(derived.field)
           has == HasValue(val)
           d == IF has /\ Truthy(derived.n) THEN DerivedEval(derived, val) ELSE derived
       IN  /\ derived' = d
           /\ lastDerivedGet' = Some([src |-> SourceField(derived.field),
                                      srcAverage |-> currentAverage,
                                      full |-> observationWindowN # None
                                               /\ pushes >= observationWindowN[1],
                                      ret |-> val,
                                      changed |-> d # derived,
                                      acted |-> has])
    /\ UNCHANGED winVars
    /\ UNCHANGED otherThanDer

DerNext ==
    \/ \E n \in WinLengths : SetObservationWindow(n)
    \/ \E v \in ReadVals : Push(v)
    \/ ResetSamplingParams
    \/ \E f \in SourceFields, n \in DerivedWindows : BuildDerived(f, n)
    \/ DerivedGetRaw

InitDer == SensorInit({FALSE}) /\ SamplingInit /\ DerivedInit /\ PoolInit /\ DigitalInit

SpecDer == InitDer /\ [][DerNext]_vars

-----------------------------------------------------------------------------
(* DigitalSensor: the timed edge sequence *)

otherThanSeq == <<poolVars, winVars, smpVars, derVars, failed>>

\* [min, max] of a step, in units of 100 ms, min <= max.
TimePairs == {<<1, 2>>, <<2, 2>>, <<2, 3>>}
TimeLists == UNION {[1..k -> TimePairs] : k \in 1..MaxSteps}

Timer(delay, callback) == [k |-> "timer", left |-> delay, cb |-> callback]
\* _timerMax = 1 (_markTimerMax): type(self._timerMax) == 0
Mark == [k |-> "mark", left |-> 0, cb |-> "none"]

\* self._onPinEdges[e](self.pin, callback): e = 0 is onPinRise, e = 1 onPinFall;
\* registering replaces the callback of that edge.
OnPinEdge(m, e, callback) ==
    IF e = 0 THEN [m EXCEPT !.rise = callback] ELSE [m EXCEPT !.fall = callback]

\* DigitalSensor._sequenceReset
SequenceReset(m) ==
    OnPinEdge([m EXCEPT !.step = 0, !.tmax = NoTimer, !.tmin = NoTimer],
              sequenceStart, "startTimerMin")

\* self._sequenceTimes[self._sequenceStep][0] and [1]
MinDelay(step) == sequenceTimes[step + 1][1]
MaxDelayIsMin(step) == sequenceTimes[step + 1][1]
MaxDelay(step) == sequenceTimes[step + 1][2]

\* DigitalSensor._startTimerMin; ^1 flips the edge
StartTimerMin(m) ==
    OnPinEdge([m EXCEPT !.tmin = Timer(MinDelay(m.step), "startTimerMax")],
              1 - ((sequenceStart + m.step) % 2), "checkTiming")

StartTimerMaxMarksAnyStep(m) ==
    [m EXCEPT !.tmin = NoTimer,
              !.tmax = Timer(MaxDelay(m.step),
                             IF hasLong THEN "markTimerMax" ELSE "sequenceReset")]

StartTimerMaxNeverMarks(m) ==
    [m EXCEPT !.tmin = NoTimer, !.tmax = Timer(MaxDelay(m.step), "sequenceReset")]

\* DigitalSensor._startTimerMax
StartTimerMax(m) ==
    [m EXCEPT !.tmin = NoTimer,
              !.tmax = Timer(MaxDelay(m.step),
                             IF hasLong /\ m.step = 0 THEN "markTimerMax"
                             ELSE "sequenceReset")]

\* DigitalSensor._markTimerMax
MarkTimerMax(m) == [m EXCEPT !.tmax = Mark]

AdvanceStepNever(m) == SequenceReset(m)

\* lines 67-71 of _checkTiming
AdvanceStep(m) ==
    IF m.step + 1 <= sequenceLength
    THEN StartTimerMin([m EXCEPT !.step = @ + 1])
    ELSE SequenceReset(m)

CheckTimingNoBounce(m) ==
    LET m1 == IF m.tmax.k = "mark"
              THEN SequenceReset([m EXCEPT !.longs = @ + 1])
              ELSE m
    IN  IF m1.tmax.k # "timer"
        THEN [m1 EXCEPT !.errs = @ + 1]
        ELSE AdvanceStep([m1 EXCEPT !.tmax = NoTimer, !.calls = @ + 1])

\* DigitalSensor._checkTiming.  A call of clear() on a _timerMax that is None
\* raises (AttributeError): the handler ends there.
CheckTiming(m) ==
    LET m1 == IF m.tmax.k = "mark"
              THEN SequenceReset([m EXCEPT !.longs = @ + 1])
              ELSE m
    IN  IF m1.tmin.k = "timer"
        THEN SequenceReset(m1)
        ELSE IF m1.tmax.k # "timer"
             THEN [m1 EXCEPT !.errs = @ + 1]
             ELSE AdvanceStep([m1 EXCEPT !.tmax = NoTimer, !.calls = @ + 1])

Run(callback, m) ==
    CASE callback = "startTimerMin" -> StartTimerMin(m)
      [] callback = "startTimerMax" -> StartTimerMax(m)
      [] callback = "markTimerMax"  -> MarkTimerMax(m)
      [] callback = "sequenceReset" -> SequenceReset(m)
      [] callback = "checkTiming"   -> CheckTiming(m)
      [] OTHER -> m

\* DigitalSensor.onSequence(first, times, to_dos, long_fn), every step having
\* an action; onRiseAndFall and onFallAndRise are the case of one step.  The pin
\* is at the level `first`.
OnSequence(first, times, long) ==
    /\ ~configured
    /\ configured' = TRUE
    /\ sequenceLength' = Len(times) - 1
    /\ sequenceTimes' = times
    /\ hasLong' = long
    /\ sequenceStart' = first
    /\ matcher' = OnPinEdge([matcher EXCEPT !.step = 0, !.tmax = NoTimer, !.tmin = NoTimer],
                            first, "startTimerMin")
    /\ pin' = first
    /\ UNCHANGED <<dur, last>>
    /\ UNCHANGED otherThanSeq

Due(t) == t.k = "timer" /\ t.left = 0
NothingDue == ~Due(matcher.tmin) /\ ~Due(matcher.tmax)

Elapse(t) == IF t.k = "timer" THEN [t EXCEPT !.left = @ - 1] ELSE t

\* One unit of time passes.  A timer expires exactly when its delay has elapsed.
Advance ==
    /\ configured
    /\ NothingDue
    /\ dur < MaxDur
    /\ dur' = dur + 1
    /\ matcher' = [matcher EXCEPT !.tmin = Elapse(@), !.tmax = Elapse(@)]
    /\ UNCHANGED <<configured, sequenceTimes, sequenceLength, sequenceStart, hasLong, pin, last>>
    /\ UNCHANGED otherThanSeq

\* The minimum-timer expires and its callback runs.
MinTimerFires ==
    /\ Due(matcher.tmin)
    /\ matcher' = Run(matcher.tmin.cb, matcher)
    /\ UNCHANGED <<configured, sequenceTimes, sequenceLength, sequenceStart, hasLong, pin, dur, last>>
    /\ UNCHANGED otherThanSeq

\* The maximum-timer expires and its callback runs.
MaxTimerFires ==
    /\ Due(matcher.tmax)
    /\ matcher' = Run(matcher.tmax.cb, matcher)
    /\ UNCHANGED <<configured, sequenceTimes, sequenceLength, sequenceStart, hasLong, pin, dur, last>>
    /\ UNCHANGED otherThanSeq

\* The pin changes level and the callback registered for that edge runs.  A
\* timer due at the same instant has expired first.
Edge ==
    /\ configured
    /\ NothingDue
    /\ pin' = 1 - pin
    /\ LET m == Run(IF pin = 0 THEN matcher.rise ELSE matcher.fall, matcher)
       IN  /\ last' = Some([level |-> pin, d |-> dur, step |-> matcher.step,
                            tmin |-> matcher.tmin.k, tmax |-> matcher.tmax.k,
                            calls |-> m.calls, longs |-> m.longs, errs |-> m.errs,
                            began |-> IF last = None THEN -1 ELSE last[1].armed,
                            armed |-> IF m.tmin.k = "timer" THEN m.step ELSE -1])
           /\ matcher' = [m EXCEPT !.calls = 0, !.longs = 0, !.errs = 0]
    /\ dur' = 0
    /\ UNCHANGED <<configured, sequenceTimes, sequenceLength, sequenceStart, hasLong>>
    /\ UNCHANGED otherThanSeq

SeqNext ==
    \/ \E first \in {0, 1}, times \in TimeLists, long \in BOOLEAN : OnSequence(first, times, long)
    \/ Advance
    \/ MinTimerFires
    \/ MaxTimerFires
    \/ Edge

InitSeq == DigitalInit /\ PoolInit /\ SensorInit({TRUE}) /\ SamplingInit /\ DerivedInit

SpecSeq == InitSeq /\ [][SeqNext]_vars

-----------------------------------------------------------------------------
(* Claims about the SensorPool, under SpecPool *)

Outstanding == Cardinality({k \in DOMAIN AllTimers : Pending(AllTimers[k])})

\* The acquisitions an exact schedule makes up to the elapsed time `now`.
ScheduleUpToNow ==
    {it \in Sensors \X (1..now) : it[2] % samplingTimes[it[1]] = 0}

\* Sampling is running and every expired timer's callback has run.
Settled == starts > 0 /\ ~stopped /\ ~AnyQueued

\* C1: with an ideal timer and positive periods, after startSampling sensor i
\* is acquired exactly at the elapsed times k*period[i], k = 1, 2, ..., and at
\* no other time.
ExactSchedule == Settled => acquired = ScheduleUpToNow

\* C1, first run only: on a pool started once and not stopped the schedule is
\* exact (the claim's example run).
FirstRunExactSchedule == (Settled /\ starts = 1) => acquired = ScheduleUpToNow

\* C2: while sampling is active, after startSampling and after every tick, the
\* remaining time of every sensor is in (0, period].
RemainingInRange ==
    starts > 0 =>
        \A i \in Sensors : 0 < diffTimes[i] /\ diffTimes[i] <= samplingTimes[i]

\* C2 witness: periods [1000, 700] at t = 1400, sensor 1 acquired twice and due
\* again in 100 ms.
RemainingPartlyElapsed ==
    /\ samplingTimes = <<10, 7>>
    /\ now = 14
    /\ diffTimes = <<10, 1>>
    /\ <<2, 14>> \in acquired

\* C3: through any sequence of startSampling, stopSampling and ticks at most
\* one timer expiration is outstanding for the pool.
OneOutstandingExpiration == Outstanding <= 1

\* C4: no sensor is acquired by the pool after stopSampling has returned, until
\* startSampling is called again.
NoAcquisitionAfterStop == acqAfterStop = {}

\* C5: after stopSampling at most the tick that was already queued runs; it
\* schedules no further tick, and once it has run the pool has no pending timer.
StoppedPoolQuiesces ==
    stopped => /\ ticksAfterStop <= 1
               /\ (ticksAfterStop = 1 => Outstanding = 0)

\* C29: on every startSampling, also one that follows the stopSampling of an
\* earlier run, no sensor is acquired during the start call: no sensor i is
\* acquired before period[i] has elapsed since that start, and its first
\* acquisition is made at period[i].
StartOnlySchedules ==
    starts > 0 =>
        \A i \in Sensors :
            /\ \A t \in 0..now : <<i, t>> \in acquired => t >= samplingTimes[i]
            /\ (Settled /\ now >= samplingTimes[i]) => <<i, samplingTimes[i]>> \in acquired

\* C29, first run only: the start of a pool never started before acquires
\* nothing, and sensor i is first acquired at period[i].
FirstStartOnlySchedules == starts = 1 => StartOnlySchedules

-----------------------------------------------------------------------------
(* Claims about the observation window, under SpecWin *)

\* The sum of the numbers of a full buffer, by index.
RECURSIVE TotalUpTo(_, _)
TotalUpTo(buf, k) == IF k = 0 THEN 0 ELSE buf[k][1] + TotalUpTo(buf, k - 1)

\* a is the mean of the full buffer: floor(sum/N) with highPrecision off; with
\* highPrecision on currentAverage is kept times N, so a = sum.
IsMeanOf(a, buf, n, hp) ==
    LET total == TotalUpTo(buf, n)
    IN  IF hp THEN a = total ELSE a * n <= total /\ total < (a + 1) * n

IsMinOf(m, buf) == m \in ValidOf(buf) /\ \A x \in ValidOf(buf) : m <= x
IsMaxOf(m, buf) == m \in ValidOf(buf) /\ \A x \in ValidOf(buf) : m >= x

WindowSet == observationWindowN # None

\* C6 as stated: after each push minSample and maxSample are the minimum and
\* the maximum of the samples currently valid in the buffer.
MinMaxAfterEachPush ==
    (WindowSet /\ pushes >= 1) =>
        /\ minSample # None /\ IsMinOf(minSample[1], sampleBuffer)
        /\ maxSample # None /\ IsMaxOf(maxSample[1], sampleBuffer)

\* C6 amended: minSample and maxSample read None until N samples were pushed
\* since the last reset, and from the N-th push on they are the minimum and
\* the maximum of the N samples in the buffer.
MinMaxOnceFull ==
    WindowSet =>
        IF pushes < observationWindowN[1]
        THEN minSample = None /\ maxSample = None
        ELSE /\ minSample # None /\ IsMinOf(minSample[1], sampleBuffer)
             /\ maxSample # None /\ IsMaxOf(maxSample[1], sampleBuffer)

\* C6 witness: a full window of three whose minimum was evicted and found
\* again by the rescan.
MinMaxAfterEviction ==
    /\ WindowSet /\ observationWindowN[1] = 3
    /\ pushes > 3
    /\ minSample = Some(1) /\ maxSample = Some(2)
    /\ 0 \notin ValidOf(sampleBuffer)

\* C7: once the window has filled, currentAverage is the mean of the N samples
\* in the buffer, also when that mean is 0.
AverageIsMean ==
    (WindowSet /\ pushes >= observationWindowN[1]) =>
        /\ currentAverage # None
        /\ IsMeanOf(currentAverage[1], sampleBuffer, observationWindowN[1], highPrecision)

\* C8: after a reset currentAverage is None after each of the first N-1 pushes,
\* and after the N-th push it is the mean of the N samples.
FirstAverage ==
    WindowSet =>
        /\ pushes < observationWindowN[1] => currentAverage = None
        /\ pushes = observationWindowN[1] =>
              /\ currentAverage # None
              /\ IsMeanOf(currentAverage[1], sampleBuffer, observationWindowN[1], highPrecision)

\* C8 witness: the third push into a window of three, integer mode, mean 1 of
\* the samples 2, 0, 2.
FirstAverageReached ==
    /\ WindowSet /\ observationWindowN[1] = 3 /\ ~highPrecision
    /\ pushes = 3
    /\ sampleBuffer = <<Some(2), Some(0), Some(2)>>
    /\ currentAverage = Some(1)

-----------------------------------------------------------------------------
(* Claims about the edge sequence, under SpecSeq *)

\* Idle: step 0, no timer active or marked, the start edge arms the sequence.
Idle ==
    /\ matcher.step = 0
    /\ matcher.tmin = NoTimer
    /\ matcher.tmax = NoTimer
    /\ (IF sequenceStart = 0 THEN matcher.rise ELSE matcher.fall) = "startTimerMin"

\* onRiseAndFall(min, max, action) without an overflow action.
RiseAndFallNoLong ==
    configured /\ Len(sequenceTimes) = 1 /\ sequenceStart = 0 /\ ~hasLong

\* The pin has just fallen, ending a HIGH persistence.
JustFell == last # None /\ dur = 0 /\ pin = 0 /\ last[1].level = 1

LongPressSilent ==
    (RiseAndFallNoLong /\ JustFell /\ last[1].d >= sequenceTimes[1][2])
    => (last[1].calls = 0 /\ last[1].errs = 0 /\ Idle)

\* onRiseAndFall(min, max, action, overflow).
RiseAndFallLong ==
    configured /\ Len(sequenceTimes) = 1 /\ sequenceStart = 0 /\ hasLong

\* C11: with onRiseAndFall(min, max, action, overflow), a HIGH persistence of
\* duration d >= max invokes the overflow action exactly once, does not invoke
\* action, and leaves the matcher reset to Idle.
LongPressOverflows ==
    (RiseAndFallLong /\ JustFell /\ last[1].d >= sequenceTimes[1][2])
    => (last[1].longs = 1 /\ last[1].calls = 0 /\ Idle)

\* An edge has just been delivered.
JustEdge == last # None /\ dur = 0

\* C12: at any step, an opposite edge that arrives while the minimum-timer is
\* pending (a persistence shorter than the step's min) is a bounce: the timer
\* is cancelled, no step action and no overflow action is invoked, and the
\* matcher is at step 0 waiting for the start edge.
BounceResets ==
    (configured /\ JustEdge /\ last[1].tmin = "timer") =>
            /\ last[1].d < MinDelay(last[1].step)
            /\ last[1].calls = 0 /\ last[1].longs = 0 /\ last[1].errs = 0
            /\ Idle

\* C12 witness: a bounce at the second step of a two-step sequence.
BounceAtSecondStep ==
    /\ configured /\ JustEdge
    /\ Len(sequenceTimes) = 2
    /\ last[1].step = 1
    /\ last[1].tmin = "timer"
    /\ last[1].d = 1
    /\ Idle

\* The last edge was the start edge of an idle matcher: it armed step 0.
StartedStepZero ==
    /\ configured /\ last # None
    /\ last[1].level = sequenceStart
    /\ last[1].step = 0 /\ last[1].tmin = "none" /\ last[1].tmax = "none"

\* The maximum-timer of step 0 has fired: min + max have elapsed since the
\* start edge with no opposite edge, and no timer is waiting to run.
MaxTimerOfStepZeroFired ==
    /\ StartedStepZero
    /\ dur >= sequenceTimes[1][1] + sequenceTimes[1][2]
    /\ NothingDue

\* C20 as stated: when the maximum-timer of step 0 fires and an overflow
\* action is configured, the overflow action is invoked at that firing and the
\* matcher is in Idle at once, without waiting for the opposite edge.
OverflowAtFiring ==
    (hasLong /\ MaxTimerOfStepZeroFired) => (matcher.longs = 1 /\ Idle)

\* C20 amended: the firing only marks the maximum-timer as expired, invoking
\* nothing and leaving the matcher at step 0; the overflow action is invoked,
\* once and without the step action, by the next opposite edge, which leaves
\* the matcher at step 0 with no timer active or marked.
OverflowAtOppositeEdge ==
    /\ (hasLong /\ MaxTimerOfStepZeroFired) =>
          /\ matcher.tmax = Mark /\ matcher.tmin = NoTimer /\ matcher.step = 0
          /\ matcher.longs = 0 /\ matcher.calls = 0
    /\ (configured /\ JustEdge /\ last[1].tmax = "mark") =>
          (hasLong /\ last[1].step = 0 /\ last[1].longs = 1 /\ last[1].calls = 0 /\ Idle)

\* C20 witness: onSequence(0, [[100, 200], [200, 300]], .., overflow), the pin
\* HIGH for 400 ms, then the fall.
OverflowInvokedAtFall ==
    /\ configured /\ JustEdge /\ hasLong
    /\ sequenceTimes = <<(<<1, 2>>), (<<2, 3>>)>>
    /\ last[1].tmax = "mark" /\ last[1].d = 4 /\ last[1].level = 1
    /\ last[1].longs = 1
    /\ Idle

\* The last edge ended a persistence of step j inside the step's valid
\* interval: the edge before it began step j, and min(j) <= d <= max(j).
ValidStep(j) ==
    /\ configured /\ JustEdge
    /\ last[1].began = j
    /\ MinDelay(j) <= last[1].d
    /\ last[1].d <= MaxDelay(j)

\* The level the pin holds during step j: polarity alternates from the start.
StepLevel(j) == (sequenceStart + 1 + j) % 2

\* C21: in a sequence of k steps, a step j whose persistence falls inside its
\* valid interval is completed by the edge opposite to the one that began it,
\* which invokes the action of step j exactly once and nothing else; if more
\* steps remain the matcher is re-armed for step j + 1, and after step k - 1
\* it is back at step 0 waiting for the start edge.  The start edge of an idle
\* matcher begins step 0, and _sequenceStep never leaves 0..k-1.
StepsInOrder ==
    /\ configured => matcher.step \in 0..(Len(sequenceTimes) - 1)
    /\ \A j \in 0..(MaxSteps - 1) : ValidStep(j) =>
          /\ last[1].step = j
          /\ last[1].level = StepLevel(j)
          /\ last[1].calls = 1 /\ last[1].longs = 0 /\ last[1].errs = 0
          /\ IF j + 1 < Len(sequenceTimes)
             THEN /\ last[1].armed = j + 1
                  /\ matcher.step = j + 1
                  /\ matcher.tmin = Timer(MinDelay(j + 1), "startTimerMax")
                  /\ (IF StepLevel(j + 1) = 1 THEN matcher.fall ELSE matcher.rise)
                        = "checkTiming"
             ELSE last[1].armed = -1 /\ Idle
    /\ StartedStepZero => last[1].armed = 0

\* C21 witness: a sequence of two steps, both persistences valid, has ended.
TwoStepsCompleted ==
    /\ Len(sequenceTimes) = 2
    /\ ValidStep(1)
    /\ last[1].calls = 1
    /\ Idle

\* The maximum-timer of step j, begun by the last edge, has fired: min + max
\* of the step have elapsed with no opposite edge, and no timer waits to run.
MaxTimerOfStepFired(j) ==
    /\ configured /\ last # None
    /\ last[1].armed = j
    /\ dur >= MinDelay(j) + MaxDelay(j)
    /\ NothingDue

\* C22: when the maximum-timer of a step j >= 1 fires, the matcher resets to
\* step 0 waiting for the start edge, and neither that firing nor the edge
\* that follows invokes the overflow action or a step action; the overflow
\* action is invoked only by the edge that ends step 0.
OverflowOnlyForFirstStep ==
    /\ \A j \in 1..(MaxSteps - 1) :
          /\ MaxTimerOfStepFired(j) =>
                (Idle /\ matcher.longs = 0 /\ matcher.calls = 0)
          /\ (configured /\ JustEdge /\ last[1].began = j
                /\ last[1].d >= MinDelay(j) + MaxDelay(j)) =>
                (last[1].longs = 0 /\ last[1].calls = 0)
    /\ (configured /\ JustEdge /\ last[1].longs > 0) =>
          (last[1].began = 0 /\ last[1].step = 0 /\ last[1].longs = 1)

\* C22 witness: an overflow action is set, and the second step of a sequence
\* has lasted beyond its maximum-timer.
SecondStepTimedOut ==
    /\ hasLong
    /\ MaxTimerOfStepFired(1)
    /\ Idle

\* C23: under every interleaving of pin edges with timer expirations each
\* handler finds the matcher consistent: no handler uses an absent timer (no
\* edge handler raises on a _timerMax that is None), and a matcher at step 0
\* whose start edge is armed has no timer pending or marked.
HandlersSeeConsistentState ==
    /\ (configured /\ JustEdge) => last[1].errs = 0
    /\ (configured /\ matcher.step = 0 /\ matcher.tmin = NoTimer
          /\ last # None /\ last[1].armed = -1) => matcher.tmax = NoTimer

-----------------------------------------------------------------------------
(* Claims about acquisition and sampling, under SpecSmp, SpecMillis, SpecMicro *)

\* C13: after stopSampling has returned, and until the next startSampling or
\* acquisition asked by the program, currentAverage, minSample, maxSample,
\* currentTrend and currentDerivative read None and the window holds no sample,
\* so that the first aggregates of a new run come from its samples only (the
\* window length, if one was given, being a valid one).
NoDataAfterStop ==
    (halted /\ (observationWindowN = None \/ observationWindowN[1] >= 1)) =>
        /\ currentAverage = None /\ minSample = None /\ maxSample = None
        /\ currentTrend = None /\ currentDerivative = None
        /\ currentBufferIndex = -1

\* The last acquisition was made by the sampling timer or loop of the current
\* run, read a value and went through (no missing normFunc, no exception), and
\* the window length handed to that run's startSampling, if any, is a valid one.
SampledInCurrentRun ==
    /\ lastGet # None
    /\ lastGet[1].by \in {"timer", "loop"}
    /\ lastGet[1].run = runs
    /\ lastGet[1].ret = "value"
    /\ (runWindow = None \/ runWindow[1] >= 1)

\* C24: for any sequence of startSampling and stopSampling calls, an
\* acquisition of a sampling run evaluates the window aggregates if and only
\* if that run's startSampling was given a window length, also when an earlier
\* run was started without one.
EvaluatedIffWindowGiven ==
    SampledInCurrentRun => (lastGet[1].evald <=> runWindow # None)

\* C25: a callback of the millisecond timer that runs after stopSampling has
\* returned, the sensor not having been started again, acquires nothing: no
\* pin is read, nothing is pushed to the window, no per-sample action or check
\* runs (the record of the last acquisition is not touched), and the
\* aggregates stay at no data.
LateCallbackAcquiresNothing ==
    [][(halted /\ halted') =>
          /\ UNCHANGED <<winVars, currentDerivative, currentTrend, lastSample, lastGet>>
          /\ currentAverage' = None /\ minSample' = None /\ maxSample' = None
          /\ currentTrend' = None /\ currentDerivative' = None
          /\ currentBufferIndex' = -1]_vars

\* C25 witness: a run with a window of two took a sample, stopSampling
\* returned, and then a callback the timer had already queued ran.
LateCallbackRan ==
    /\ halted
    /\ sensorTimer.st = "cleared" /\ sensorTimer.late /\ ~sensorTimer.queued
    /\ observationWindowN = Some(2)
    /\ lastGet # None /\ lastGet[1].by = "timer" /\ lastGet[1].evald
    /\ currentAverage = None /\ currentBufferIndex = -1

\* The number of loops that passed the test of _samplingTime and have their
\* acquisition still to make.
Acquiring(ls) == Cardinality({k \in DOMAIN ls : ls[k].pc = "get"})

\* C26: after stopSampling on a sensor sampled in microsecond mode, and as
\* long as startSampling is not called again, no loop begins a new iteration
\* (a loop can only complete the one in progress), and under fair scheduling
\* of the loops every loop terminates.
MicroLoopTerminates ==
    /\ [][(samplingTime = None /\ samplingTime' = None) =>
            (Len(loops') <= Len(loops) /\ Acquiring(loops') <= Acquiring(loops))]_vars
    /\ (samplingTime = None) ~> (loops = <<>> \/ samplingTime # None)

\* C26 witness: stopSampling returned while a loop was inside its iteration;
\* the loop completed that acquisition and has terminated.
MicroLoopEnded ==
    /\ halted /\ samplingTime = None
    /\ loops = <<>>
    /\ lastGet # None /\ lastGet[1].by = "loop" /\ lastGet[1].run = runs
    /\ currentBufferIndex = 0

\* C27: once stopSampling has been called, the loop of the stopped run makes
\* no acquisition for a later run: it never passes the test of _samplingTime
\* again, also when startSampling(MICROS) is called before it wakes.
StoppedLoopStaysStopped ==
    \A k \in DOMAIN loops : loops[k].st # "revived"

\* The sample pushed last and the one pushed before it, in a window of two
\* samples or more.
NewestSample == sampleBuffer[currentBufferIndex + 1]
PrecedingSample ==
    sampleBuffer[((currentBufferIndex - 1) % observationWindowN[1]) + 1]

\* C28: with a window length N >= 1, currentDerivative is undefined until two
\* samples have been pushed since the last reset; from the second push on, a
\* push of a sampling run leaves it at (value - previous) over the sampling
\* period, previous being the sample pushed just before (read from the window
\* when N >= 2).
DerivativeFromSecondPush ==
    (observationWindowN # None /\ observationWindowN[1] >= 1) =>
        /\ pushes < 2 => currentDerivative = None
        /\ (/\ pushes >= 2 /\ observationWindowN[1] >= 2
            /\ lastGet # None /\ lastGet[1].evald /\ lastGet[1].run = runs
            /\ samplingTime # None)
           => currentDerivative = Some([dv |-> NewestSample[1] - PrecedingSample[1],
                                        dt |-> samplingTime[1]])

\* C16: a normalized acquisition with no normalization function set returns
\* False; the window, the aggregates and the last sample are unchanged and no
\* per-sample action or check is run, for a direct call and for a timer
\* callback alike.
NormalizedWithoutNormFunc ==
    (lastGet # None /\ lastGet[1].kind = "norm" /\ ~lastGet[1].norm) =>
        (lastGet[1].ret = "False" /\ ~lastGet[1].changed /\ ~lastGet[1].acted)

\* C16 witness: the timer of a run started with get_type "norm" and a window of
\* two has called _sample; a sample read by getRaw is in the window.
TimerSkipsNormalized ==
    /\ lastGet # None
    /\ lastGet[1].by = "timer" /\ lastGet[1].kind = "norm" /\ ~lastGet[1].norm
    /\ lastGet[1].ret = "False"
    /\ observationWindowN = Some(2) /\ currentBufferIndex = 0

\* C17: a window length <= 0 given to startSampling is rejected when given: no
\* sensor holds such a window length, and no acquisition raises at push time.
NonPositiveWindowRejected ==
    /\ observationWindowN # None => observationWindowN[1] >= 1
    /\ lastGet # None => lastGet[1].ret # "raise"

\* C18: the millisecond timer of a sensor and its microsecond loop are never
\* both active.
OneSamplingMode ==
    ~((sensorTimer.st = "running" \/ lostTimers > 0) /\ loops # <<>>)

-----------------------------------------------------------------------------
(* Claims about the derived sensor, under SpecDer *)

DerivedOnAverage == derived.field = "currentAverage" /\ lastDerivedGet # None

\* C14: a sensor derived on (source, currentAverage) returns None from every
\* acquisition made before the source has pushed a full window, and from then
\* on each acquisition returns the source's currentAverage, a number.
DerivedTracksAverage ==
    DerivedOnAverage =>
        /\ lastDerivedGet[1].ret = lastDerivedGet[1].srcAverage
        /\ ~lastDerivedGet[1].full => lastDerivedGet[1].ret = None
        /\ lastDerivedGet[1].full => lastDerivedGet[1].ret # None

\* C14 witness: the source, with a window of two, has pushed 1 and 1 and the
\* derived sensor has just read the average 1.
DerivedReadsAverage ==
    /\ DerivedOnAverage
    /\ observationWindowN = Some(2) /\ pushes = 2
    /\ currentAverage = Some(1)
    /\ lastDerivedGet[1].full /\ lastDerivedGet[1].ret = Some(1)

\* C15: when the field of the source holds no value, the acquisition of the
\* derived sensor returns None; the window, the aggregates and the last sample
\* of the derived sensor are unchanged and none of its actions or checks is
\* run.
AbsentSourceSkips ==
    (lastDerivedGet # None /\ lastDerivedGet[1].src = None) =>
        /\ lastDerivedGet[1].ret = None
        /\ ~lastDerivedGet[1].changed
        /\ ~lastDerivedGet[1].acted

\* C15 witness: the derived sensor holds a sample in its window of two, the
\* source was reset, and the derived sensor was read again.
AbsentAfterSourceReset ==
    /\ DerivedOnAverage
    /\ derived.n = Some(2) /\ derived.idx = 0
    /\ currentAverage = None
    /\ lastDerivedGet[1].src = None /\ lastDerivedGet[1].ret = None

-----------------------------------------------------------------------------
(* Claims about a failing acquisition in a pool tick, under SpecPoolFail *)

\* C19: an acquisition that fails inside a pool tick does not abort the
\* scheduler: the pool, unless stopped, still has its next tick scheduled.
SchedulerSurvivesFailure ==
    (failed /\ ~stopped) => Pending(samplingTimer)

\* Without a failing acquisition a pool that was started and not stopped always
\* has a tick scheduled.
RunningPoolIsScheduled ==
    (starts > 0 /\ ~stopped /\ ~failed) => Outstanding >= 1

====
